---- MODULE Spec2Model ----
(***************************************************************************)
(* CPU scheduling simulator (cpu_scheduler_simulation_v2.py).              *)
(*                                                                         *)
(* The six scheduling functions are modelled loop iteration by loop        *)
(* iteration, driven by the "Compare All" handler of main(), which calls   *)
(* run_simulation for every entry of algorithm_options on one and the same *)
(* process_list.  Python lists are sequences, tuples that the code indexes *)
(* by position are records with the field names the code unpacks them to.  *)
(***************************************************************************)
EXTENDS Integers, Sequences, FiniteSets, TLC

\* ---------------------------------------------------------------- bounds
MaxProcs == 3
MaxArrival == 2
MaxBurst == 3
MaxPriority == 2
MaxQuantum == 2
\* the longest timeline a scheduling loop is followed for
MaxSegments == 32

\* ---------------------------------------------------------------- helpers
Min2(a, b) == IF a <= b THEN a ELSE b

Max2(a, b) == IF a >= b THEN a ELSE b

SetMin(S) == CHOOSE x \in S : \A y \in S : x <= y

Range(s) == {s[i] : i \in 1..Len(s)}

RECURSIVE SeqSum(_)
SeqSum(s) == IF s = <<>> THEN 0 ELSE Head(s) + SeqSum(Tail(s))

\* The sort keys the code uses: lambda x: x[1] (arrival), x[2] (burst of a
\* 4-tuple, remaining of a 5-tuple), x[4] (priority of a 5-tuple) and
\* (x[3], x[1]) (priority, then arrival).
\* variant: no key at all, a sort that leaves the list as it is
KeyLessNever(key, x, y) == FALSE

KeyLess(key, x, y) ==
    IF key = "priority_arrival"
    THEN x.priority < y.priority \/ (x.priority = y.priority /\ x.arrival < y.arrival)
    ELSE x[key] < y[key]

\* Python's list.sort / sorted are stable: x goes behind every element whose
\* key is not greater than its own.
RECURSIVE InsertSorted(_, _, _)
InsertSorted(x, s, key) ==
    IF s = <<>> THEN <<x>>
    ELSE IF KeyLess(key, x, Head(s)) THEN <<x>> \o s
         ELSE <<Head(s)>> \o InsertSorted(x, Tail(s), key)

RECURSIVE SortFrom(_, _, _)
SortFrom(sorted, rest, key) ==
    IF rest = <<>> THEN sorted
    ELSE SortFrom(InsertSorted(Head(rest), sorted, key), Tail(rest), key)

\* variant: a sort that is not stable, elements of equal key come out reversed
SortTiesReversed(s, key) == SortFrom(<<>>, [i \in 1..Len(s) |-> s[Len(s) + 1 - i]], key)

StableSort(s, key) == SortFrom(<<>>, s, key)

\* ---------------------------------------------------------------- data
\* Process = (pid, arrival, burst, priority); main() names the i-th process
\* f"P{i+1}", modelled by the number i+1.
Process(i, f) == [pid |-> i, arrival |-> f[1], burst |-> f[2], priority |-> f[3]]

Fields == (0..MaxArrival) \X (1..MaxBurst) \X (1..MaxPriority)

\* the list main() builds from the fields entered for P1..Pn
ProcessList(fs) == [i \in 1..Len(fs) |-> Process(i, fs[i])]

\* the 5-tuples (pid, arrival, remaining, original_burst, priority) of the
\* two unit-stepping functions
Working(p) ==
    [pid |-> p.pid, arrival |-> p.arrival, remaining |-> p.burst,
     original_burst |-> p.burst, priority |-> p.priority]

WithRemaining(a, remaining) == [a EXCEPT !.remaining = remaining]

\* Python's None for active_process
None == [pid |-> 0, arrival |-> 0, remaining |-> 0, original_burst |-> 0, priority |-> 0]

\* a timeline segment (pid, start_time, end_time)
Segment(pid, start_time, end_time) == <<pid, start_time, end_time>>

SegPid(g) == g[1]

SegStart(g) == g[2]

SegEnd(g) == g[3]

algorithm_options ==
    <<"FCFS", "SJN", "SJN with Preemption", "Round Robin", "Priority", "Priority with Preemption">>


\* ---------------------------------------------------------------- state
VARIABLES
    process_list,    \* main(): the caller's list, kept across runs
    original,        \* history: process_list as it was configured
    quantum,         \* main(): the Round Robin time quantum
    button,          \* main(): the button whose handler runs, "none" between clicks
    pc,              \* "main" | "call" | "loop" | "returned" | "raised"
    idx,             \* Compare All: position of algo in algorithm_options
    processes,       \* the scheduling function's local list
    ready_queue,     \* sjn / sjn_preemptive / priority_preemptive
    queue,           \* round_robin
    active_process,  \* sjn_preemptive / priority_preemptive
    current_time,
    schedule,
    results,         \* Compare All: algo -> what run_simulation returned
    previous         \* history: results of the previous Compare All

locals == <<processes, ready_queue, queue, active_process, current_time, schedule>>

vars == <<process_list, original, quantum, button, pc, idx, processes, ready_queue, queue,
          active_process, current_time, schedule, results, previous>>

algo == IF idx \in 1..Len(algorithm_options) THEN algorithm_options[idx] ELSE "none"

NoResults == [a \in {} |-> <<>>]

Init ==
    /\ \E n \in 1..MaxProcs : \E fs \in [1..n -> Fields] : process_list = ProcessList(fs)
    /\ original = process_list
    /\ quantum \in 1..MaxQuantum
    /\ button = "none"
    /\ pc = "main"
    /\ idx = 0
    /\ processes = <<>>
    /\ ready_queue = <<>>
    /\ queue = <<>>
    /\ active_process = None
    /\ current_time = 0
    /\ schedule = <<>>
    /\ results = NoResults
    /\ previous = NoResults

\* Every scheduling function binds its working list to a new list object
\* (sorted(...), processes.copy(), a list comprehension), so the in-place
\* pops below never reach the caller's list.
\* variant: sjn_scheduling without its processes.copy()
SharesCallerListSJN(a) == a = "SJN"

SharesCallerList(a) == FALSE

CallerList(a, working, caller) == IF SharesCallerList(a) THEN working ELSE caller

\* ---------------------------------------------------------------- FCFS
\* start_time = max(current_time, arrival)
\* variant: a start time that ignores the arrival
StartTimeNow(now, arrival) == now

StartTime(now, arrival) == Max2(now, arrival)

\* end_time = start_time + burst
\* variant: one time unit whatever the burst
EndTimeUnit(start_time, burst) == start_time + 1

EndTime(start_time, burst) == start_time + burst

fcfs_scheduling_call ==
    /\ pc = "call" /\ algo = "FCFS"
    /\ processes' = StableSort(process_list, "arrival")
    /\ current_time' = 0
    /\ schedule' = <<>>
    /\ pc' = "loop"
    /\ UNCHANGED <<process_list, original, quantum, button, idx, ready_queue, queue,
                   active_process, results, previous>>

\* one pass of "for pid, arrival, burst, _ in processes"
fcfs_scheduling_iter ==
    /\ pc = "loop" /\ algo = "FCFS"
    /\ processes # <<>>
    /\ LET p == Head(processes)
           start_time == StartTime(current_time, p.arrival)
           end_time == EndTime(start_time, p.burst)
       IN /\ schedule' = Append(schedule, Segment(p.pid, start_time, end_time))
          /\ current_time' = end_time
    /\ processes' = Tail(processes)
    /\ UNCHANGED <<process_list, original, quantum, button, pc, idx, ready_queue, queue,
                   active_process, results, previous>>

\* ---------------------------------------------------------------- Priority
priority_scheduling_call ==
    /\ pc = "call" /\ algo = "Priority"
    /\ processes' = StableSort(process_list, "priority_arrival")
    /\ current_time' = 0
    /\ schedule' = <<>>
    /\ pc' = "loop"
    /\ UNCHANGED <<process_list, original, quantum, button, idx, ready_queue, queue,
                   active_process, results, previous>>

priority_scheduling_iter ==
    /\ pc = "loop" /\ algo = "Priority"
    /\ processes # <<>>
    /\ LET p == Head(processes)
           start_time == StartTime(current_time, p.arrival)
           end_time == EndTime(start_time, p.burst)
       IN /\ schedule' = Append(schedule, Segment(p.pid, start_time, end_time))
          /\ current_time' = end_time
    /\ processes' = Tail(processes)
    /\ UNCHANGED <<process_list, original, quantum, button, pc, idx, ready_queue, queue,
                   active_process, results, previous>>

\* ---------------------------------------------------------------- SJN
\* while processes and processes[0][1] <= current_time:
\*     ready_queue.append(processes.pop(0))
RECURSIVE AdmitArrived(_, _, _)
AdmitArrived(procs, rq, now) ==
    IF procs # <<>> /\ Head(procs).arrival <= now
    THEN AdmitArrived(Tail(procs), Append(rq, Head(procs)), now)
    ELSE <<procs, rq>>

sjn_scheduling_call ==
    /\ pc = "call" /\ algo = "SJN"
    /\ processes' = process_list
    /\ current_time' = 0
    /\ schedule' = <<>>
    /\ ready_queue' = <<>>
    /\ pc' = "loop"
    /\ UNCHANGED <<process_list, original, quantum, button, idx, queue, active_process,
                   results, previous>>

\* one pass of "while processes or ready_queue"
sjn_scheduling_iter ==
    /\ pc = "loop" /\ algo = "SJN"
    /\ processes # <<>> \/ ready_queue # <<>>
    /\ LET adm == AdmitArrived(processes, ready_queue, current_time)
           procs == adm[1]
           rq == StableSort(adm[2], "burst")
       IN /\ processes' = procs
          /\ process_list' = CallerList("SJN", procs, process_list)
          /\ IF adm[2] # <<>>
             THEN LET p == Head(rq)
                      start_time == current_time
                      end_time == EndTime(start_time, p.burst)
                  IN /\ ready_queue' = Tail(rq)
                     /\ schedule' = Append(schedule, Segment(p.pid, start_time, end_time))
                     /\ current_time' = end_time
             ELSE /\ ready_queue' = adm[2]
                  /\ schedule' = schedule
                  /\ current_time' = IF procs # <<>> THEN Head(procs).arrival
                                     ELSE current_time + 1
    /\ UNCHANGED <<original, quantum, button, pc, idx, queue, active_process, results, previous>>

\* ---------------------------------------------------------------- Round Robin
\* time_slice = min(quantum, burst)
\* variant: a full quantum whatever burst is left
rr_time_slice_quantum(q, burst) == q

\* variant: the whole burst whatever the quantum
rr_time_slice_burst(q, burst) == burst

rr_time_slice(q, burst) == Min2(q, burst)

\* queue.append((pid, arrival, remaining_burst, priority))
\* variant: the unfinished process goes back to the head of the queue
rr_requeue_head(rest, p) == <<p>> \o rest

rr_requeue(rest, p) == Append(rest, p)

round_robin_scheduling_call ==
    /\ pc = "call" /\ algo = "Round Robin"
    /\ queue' = process_list
    /\ current_time' = 0
    /\ schedule' = <<>>
    /\ pc' = "loop"
    /\ UNCHANGED <<process_list, original, quantum, button, idx, processes, ready_queue,
                   active_process, results, previous>>

\* one pass of "while queue"
round_robin_scheduling_iter ==
    /\ pc = "loop" /\ algo = "Round Robin"
    /\ queue # <<>>
    /\ Len(schedule) < MaxSegments
    /\ LET p == Head(queue)
           start_time == StartTime(current_time, p.arrival)
           time_slice == rr_time_slice(quantum, p.burst)
           end_time == start_time + time_slice
           remaining_burst == p.burst - time_slice
           rest == IF remaining_burst > 0
                   THEN rr_requeue(Tail(queue), [p EXCEPT !.burst = remaining_burst])
                   ELSE Tail(queue)
       IN /\ schedule' = Append(schedule, Segment(p.pid, start_time, end_time))
          /\ current_time' = end_time
          /\ queue' = rest
          /\ process_list' = CallerList("Round Robin", rest, process_list)
    /\ UNCHANGED <<original, quantum, button, pc, idx, processes, ready_queue, active_process,
                   results, previous>>

\* ---------------------------------------------------------------- unit stepping
\* sjn_preemptive: "ready_queue[0][2] < remaining"
srtf_preempts(head, remaining, priority) == head.remaining < remaining

\* priority_preemptive: "ready_queue[0][4] < priority"
pp_preempts(head, remaining, priority) == head.priority < priority

Preempts(key, head, remaining, priority) ==
    IF key = "remaining" THEN srtf_preempts(head, remaining, priority)
    ELSE pp_preempts(head, remaining, priority)

\* next_arrival = min((p[1] for p in processes if p[1] > current_time), default=inf)
\* time_slice = min(1, remaining, max(1, next_arrival - current_time))
\* variant: the process runs on to completion in one slice
unit_time_slice_whole(remaining, procs, now) == remaining

unit_time_slice(remaining, procs, now) ==
    LET later == {p.arrival : p \in {q \in Range(procs) : q.arrival > now}}
    IN IF later = {} THEN Min2(1, remaining)
       ELSE Min2(Min2(1, remaining), Max2(1, SetMin(later) - now))

\* One pass of "while processes or ready_queue or active_process" of
\* sjn_preemptive_scheduling (key "remaining") and of
\* priority_preemptive_scheduling (key "priority"): the two bodies differ in
\* the sort key and in the preemption test only.
UnitStep(key, procs0, rq0, active0, now, sched) ==
    LET adm == AdmitArrived(procs0, rq0, now)
        procs1 == adm[1]
        pick == active0 = None /\ adm[2] # <<>>
        sorted1 == StableSort(adm[2], key)
        active1 == IF pick THEN Head(sorted1) ELSE active0
        rq1 == IF pick THEN Tail(sorted1) ELSE adm[2]
    IN IF active1 # None
       THEN LET start_time == now
                time_slice == unit_time_slice(active1.remaining, procs1, now)
                now1 == now + time_slice
                remaining == active1.remaining - time_slice
                sched1 == Append(sched, Segment(active1.pid, start_time, now1))
                new_arrivals == SelectSeq(procs1, LAMBDA p : p.arrival <= now1)
                procs2 == SelectSeq(procs1, LAMBDA p : p.arrival > now1)
                rq2 == StableSort(rq1 \o new_arrivals, key)
                keep == IF remaining = 0 THEN None ELSE WithRemaining(active1, remaining)
            IN IF new_arrivals # <<>>
               THEN IF rq2 # <<>> /\ Preempts(key, Head(rq2), remaining, active1.priority)
                    THEN [processes |-> procs2,
                          ready_queue |-> Tail(Append(rq2, WithRemaining(active1, remaining))),
                          active_process |-> Head(rq2),
                          current_time |-> now1, schedule |-> sched1]
                    ELSE [processes |-> procs2, ready_queue |-> rq2,
                          active_process |-> keep,
                          current_time |-> now1, schedule |-> sched1]
               ELSE [processes |-> procs1, ready_queue |-> rq1,
                     active_process |-> keep,
                     current_time |-> now1, schedule |-> sched1]
       ELSE [processes |-> procs1, ready_queue |-> rq1, active_process |-> active1,
             current_time |-> now + 1, schedule |-> sched]

\* processes = [(pid, arrival, burst, burst, priority) for ...]
\* current_time = min(p[1] for p in processes)
\* min() of an empty sequence raises ValueError
unit_stepping_call ==
    /\ IF process_list = <<>>
       THEN /\ pc' = "raised"
            /\ UNCHANGED <<processes, current_time, schedule, ready_queue, active_process>>
       ELSE /\ processes' = [i \in 1..Len(process_list) |-> Working(process_list[i])]
            /\ current_time' = SetMin({p.arrival : p \in Range(process_list)})
            /\ schedule' = <<>>
            /\ ready_queue' = <<>>
            /\ active_process' = None
            /\ pc' = "loop"
    /\ UNCHANGED <<process_list, original, quantum, button, idx, queue, results, previous>>

unit_stepping_iter(key) ==
    /\ processes # <<>> \/ ready_queue # <<>> \/ active_process # None
    /\ LET n == UnitStep(key, processes, ready_queue, active_process, current_time, schedule)
       IN /\ processes' = n.processes
          /\ ready_queue' = n.ready_queue
          /\ active_process' = n.active_process
          /\ current_time' = n.current_time
          /\ schedule' = n.schedule
          /\ process_list' = CallerList(algo, n.processes, process_list)
    /\ UNCHANGED <<original, quantum, button, pc, idx, queue, results, previous>>

sjn_preemptive_scheduling_call ==
    /\ pc = "call" /\ algo = "SJN with Preemption"
    /\ unit_stepping_call

sjn_preemptive_scheduling_iter ==
    /\ pc = "loop" /\ algo = "SJN with Preemption"
    /\ unit_stepping_iter("remaining")

priority_preemptive_scheduling_call ==
    /\ pc = "call" /\ algo = "Priority with Preemption"
    /\ unit_stepping_call

priority_preemptive_scheduling_iter ==
    /\ pc = "loop" /\ algo = "Priority with Preemption"
    /\ unit_stepping_iter("priority")

\* ---------------------------------------------------------------- return
\* the condition under which the function's loop goes round once more
LoopCondition ==
    CASE algo \in {"FCFS", "Priority"} -> processes # <<>>
      [] algo = "SJN" -> processes # <<>> \/ ready_queue # <<>>
      [] algo = "Round Robin" -> queue # <<>>
      [] OTHER -> processes # <<>> \/ ready_queue # <<>> \/ active_process # None

\* "return schedule"
scheduling_return ==
    /\ pc = "loop"
    /\ ~LoopCondition
    /\ pc' = "returned"
    /\ UNCHANGED <<process_list, original, quantum, button, idx, processes, ready_queue, queue,
                   active_process, current_time, schedule, results, previous>>

\* ---------------------------------------------------------------- metrics
Pids(procs) == {p.pid : p \in Range(procs)}

SchedPids(sched) == {SegPid(g) : g \in Range(sched)}

FirstIndex(sched, pid) == SetMin({i \in 1..Len(sched) : SegPid(sched[i]) = pid})

LastIndex(sched, pid) ==
    CHOOSE i \in 1..Len(sched) :
        /\ SegPid(sched[i]) = pid
        /\ \A j \in (i + 1)..Len(sched) : SegPid(sched[j]) # pid

\* process_dict = {p[0]: ... for p in processes}: a later entry of the same
\* pid replaces an earlier one
ProcessDict(procs) ==
    [pid \in Pids(procs) |->
        procs[CHOOSE i \in 1..Len(procs) :
                 /\ procs[i].pid = pid
                 /\ \A j \in (i + 1)..Len(procs) : procs[j].pid # pid]]

\* first_starts and completion_times as the "for pid, start, end in schedule"
\* loops leave them
FirstStarts(sched) == [pid \in SchedPids(sched) |-> SegStart(sched[FirstIndex(sched, pid)])]

CompletionTimes(sched) == [pid \in SchedPids(sched) |-> SegEnd(sched[LastIndex(sched, pid)])]

\* The dict comprehensions over process_dict raise KeyError for a pid that
\* the schedule does not hold.
calculate_waiting_time(sched, procs) ==
    LET process_dict == ProcessDict(procs)
        first_starts == FirstStarts(sched)
        completion_times == CompletionTimes(sched)
        raised == ~(DOMAIN process_dict \subseteq DOMAIN first_starts)
        known == DOMAIN process_dict \cap DOMAIN first_starts
    IN [raised |-> raised,
        waiting_times |->
            [pid \in known |-> Max2(0, first_starts[pid] - process_dict[pid].arrival)],
        turnaround_times |->
            [pid \in known |-> completion_times[pid] - process_dict[pid].arrival],
        response_times |->
            [pid \in known |-> first_starts[pid] - process_dict[pid].arrival]]

\* the loop of calculate_preemptive_waiting_time from segment i on, with the
\* dicts waiting_times and last_end as they stand
\* variant: the waiting time stops at the first dispatch
WaitingLoopFirstWait(sched, i, process_dict, waiting_times, last_end) ==
    [pid \in DOMAIN process_dict \cap SchedPids(sched) |->
        Max2(0, SegStart(sched[FirstIndex(sched, pid)]) - process_dict[pid].arrival)]

RECURSIVE WaitingLoop(_, _, _, _, _)
WaitingLoop(sched, i, process_dict, waiting_times, last_end) ==
    IF i > Len(sched) THEN waiting_times
    ELSE LET pid == SegPid(sched[i])
             start == SegStart(sched[i])
         IN IF pid \in DOMAIN process_dict
            THEN WaitingLoop(sched, i + 1, process_dict,
                     IF pid \notin DOMAIN waiting_times
                     THEN (pid :> Max2(0, start - process_dict[pid].arrival)) @@ waiting_times
                     ELSE IF pid \in DOMAIN last_end
                          THEN [waiting_times EXCEPT ![pid] = @ + (start - last_end[pid])]
                          ELSE waiting_times,
                     (pid :> SegEnd(sched[i])) @@ last_end)
            ELSE WaitingLoop(sched, i + 1, process_dict, waiting_times, last_end)

calculate_preemptive_waiting_time(sched, procs) ==
    LET process_dict == ProcessDict(procs)
        first_starts == FirstStarts(sched)
        completion_times == CompletionTimes(sched)
        raised == ~(DOMAIN process_dict \subseteq DOMAIN first_starts)
        known == DOMAIN process_dict \cap DOMAIN first_starts
        NoDict == [pid \in {} |-> 0]
    IN [raised |-> raised,
        waiting_times |-> WaitingLoop(sched, 1, process_dict, NoDict, NoDict),
        turnaround_times |->
            [pid \in known |-> completion_times[pid] - process_dict[pid].arrival],
        response_times |->
            [pid \in known |-> first_starts[pid] - process_dict[pid].arrival]]

\* ---------------------------------------------------------------- run_simulation
\* variant: calculate_waiting_time whatever the algorithm
MetricsContiguous(a, sched, procs) == calculate_waiting_time(sched, procs)

\* the calculator run_simulation pairs with each algorithm
Metrics(a, sched, procs) ==
    IF a \in {"FCFS", "SJN", "Priority"} THEN calculate_waiting_time(sched, procs)
    ELSE calculate_preemptive_waiting_time(sched, procs)

\* A quotient the code computes in floating point, kept as numerator and
\* denominator; the guarded "else 0" is Zero.
Zero == [num |-> 0, den |-> 1]

Quotient(n, d) == [num |-> n, den |-> d]

RECURSIVE DictSum(_)
DictSum(d) ==
    IF DOMAIN d = {} THEN 0
    ELSE LET k == CHOOSE x \in DOMAIN d : TRUE
         IN d[k] + DictSum([x \in DOMAIN d \ {k} |-> d[x]])

\* sum(d.values()) / len(d) if d else 0
Average(d) == IF DOMAIN d # {} THEN Quotient(DictSum(d), Cardinality(DOMAIN d)) ELSE Zero

\* variant: the end of the first segment, schedule[0][2]
TotalTimeFirst(sched, procs) ==
    SegEnd(sched[1]) - SetMin({p.arrival : p \in Range(procs)})

\* total_time = schedule[-1][2] - min(p[1] for p in processes)
TotalTime(sched, procs) ==
    SegEnd(sched[Len(sched)]) - SetMin({p.arrival : p \in Range(procs)})

\* run_simulation raises when its calculator raises KeyError, when
\* schedule[-1] finds no segment (IndexError) or min() no process (ValueError)
RunRaises(a, sched, procs) ==
    \/ Metrics(a, sched, procs).raised
    \/ sched = <<>>
    \/ procs = <<>>

\* what run_simulation hands back once the scheduling function has returned
RunResult(a, sched, procs) ==
    LET m == Metrics(a, sched, procs)
        total_time == TotalTime(sched, procs)
        busy_time == SeqSum([i \in 1..Len(procs) |-> procs[i].burst])
    IN [schedule |-> sched,
        wt |-> m.waiting_times, tt |-> m.turnaround_times, rt |-> m.response_times,
        awt |-> Average(m.waiting_times),
        att |-> Average(m.turnaround_times),
        art |-> Average(m.response_times),
        total_time |-> total_time,
        busy_time |-> busy_time,
        cpu_util |-> IF total_time > 0 THEN Quotient(busy_time * 100, total_time) ELSE Zero,
        throughput |-> IF total_time > 0 THEN Quotient(Len(procs), total_time) ELSE Zero]

\* "Run Simulation": run_simulation(process_list, algorithm, quantum) for the
\* algorithm picked in the selectbox
RunSimulation ==
    /\ pc = "main"
    /\ button' = "Run Simulation"
    /\ results' = NoResults
    /\ idx' \in 1..Len(algorithm_options)
    /\ pc' = "call"
    /\ UNCHANGED <<process_list, original, quantum, previous, locals>>

\* "Compare All": for algo in algorithm_options
CompareAll ==
    /\ pc = "main"
    /\ button' = "Compare All"
    /\ results' = NoResults
    /\ idx' = 1
    /\ pc' = "call"
    /\ UNCHANGED <<process_list, original, quantum, previous, locals>>

\* the rest of run_simulation, results[algo] = ..., and the loop's next turn;
\* an exception leaves run_simulation for the handler's except clause
run_simulation_return ==
    /\ pc = "returned"
    /\ IF RunRaises(algo, schedule, process_list)
       THEN /\ pc' = "raised"
            /\ UNCHANGED <<button, idx, results, previous>>
       ELSE /\ results' = (algo :> RunResult(algo, schedule, process_list)) @@ results
            /\ IF button = "Compare All" /\ idx < Len(algorithm_options)
               THEN /\ idx' = idx + 1
                    /\ pc' = "call"
                    /\ UNCHANGED <<button, previous>>
               ELSE /\ idx' = 0
                    /\ pc' = "main"
                    /\ button' = "none"
                    /\ previous' = IF button = "Compare All" THEN results' ELSE previous
    /\ processes' = <<>>
    /\ ready_queue' = <<>>
    /\ queue' = <<>>
    /\ active_process' = None
    /\ current_time' = 0
    /\ schedule' = <<>>
    /\ UNCHANGED <<process_list, original, quantum>>

\* "except Exception as e: st.error(...)": the handler ends, nothing is shown
except_handler ==
    /\ pc = "raised"
    /\ pc' = "main"
    /\ button' = "none"
    /\ idx' = 0
    /\ processes' = <<>>
    /\ ready_queue' = <<>>
    /\ queue' = <<>>
    /\ active_process' = None
    /\ current_time' = 0
    /\ schedule' = <<>>
    /\ UNCHANGED <<process_list, original, quantum, results, previous>>

\* the handler pressed once, on a freshly configured list
CompareAllOnce ==
    /\ previous = NoResults
    /\ CompareAll

Next ==
    \/ CompareAllOnce
    \/ fcfs_scheduling_call
    \/ fcfs_scheduling_iter
    \/ sjn_scheduling_call
    \/ sjn_scheduling_iter
    \/ sjn_preemptive_scheduling_call
    \/ sjn_preemptive_scheduling_iter
    \/ round_robin_scheduling_call
    \/ round_robin_scheduling_iter
    \/ priority_scheduling_call
    \/ priority_scheduling_iter
    \/ priority_preemptive_scheduling_call
    \/ priority_preemptive_scheduling_iter
    \/ scheduling_return
    \/ run_simulation_return

Spec == Init /\ [][Next]_vars

\* "Compare All" pressed again and again on the same session
NextRepeat ==
    \/ CompareAll
    \/ fcfs_scheduling_call
    \/ fcfs_scheduling_iter
    \/ sjn_scheduling_call
    \/ sjn_scheduling_iter
    \/ sjn_preemptive_scheduling_call
    \/ sjn_preemptive_scheduling_iter
    \/ round_robin_scheduling_call
    \/ round_robin_scheduling_iter
    \/ priority_scheduling_call
    \/ priority_scheduling_iter
    \/ priority_preemptive_scheduling_call
    \/ priority_preemptive_scheduling_iter
    \/ scheduling_return
    \/ run_simulation_return

SpecRepeat == Init /\ [][NextRepeat]_vars

\* "Load Example": Test Case 1, Long First Process
LoadExample == <<Process(1, <<0, 24, 1>>), Process(2, <<1, 3, 1>>), Process(3, <<2, 3, 1>>)>>

InitExample ==
    /\ process_list = LoadExample
    /\ original = process_list
    /\ quantum \in 1..MaxQuantum
    /\ button = "none"
    /\ pc = "main"
    /\ idx = 0
    /\ processes = <<>>
    /\ ready_queue = <<>>
    /\ queue = <<>>
    /\ active_process = None
    /\ current_time = 0
    /\ schedule = <<>>
    /\ results = NoResults
    /\ previous = NoResults

SpecExample == InitExample /\ [][Next]_vars

\* The functions take any list of tuples and any quantum: nothing in them, and
\* nothing in run_simulation, looks at the values before using them.  The
\* lists below also hold what the widgets of main() keep out: no process at
\* all, an id used twice, a burst of 0, a negative arrival, a priority of 0.
AnyFields == (-1..1) \X (0..1) \X (0..1)

InitAnyInput ==
    /\ \E n \in 0..2 : \E ids \in [1..n -> 1..2] : \E fs \in [1..n -> AnyFields] :
           process_list = [i \in 1..n |-> Process(ids[i], fs[i])]
    /\ original = process_list
    /\ quantum \in 0..MaxQuantum
    /\ button = "none"
    /\ pc = "main"
    /\ idx = 0
    /\ processes = <<>>
    /\ ready_queue = <<>>
    /\ queue = <<>>
    /\ active_process = None
    /\ current_time = 0
    /\ schedule = <<>>
    /\ results = NoResults
    /\ previous = NoResults

NextAnyInput ==
    \/ RunSimulation
    \/ CompareAllOnce
    \/ fcfs_scheduling_call
    \/ fcfs_scheduling_iter
    \/ sjn_scheduling_call
    \/ sjn_scheduling_iter
    \/ sjn_preemptive_scheduling_call
    \/ sjn_preemptive_scheduling_iter
    \/ round_robin_scheduling_call
    \/ round_robin_scheduling_iter
    \/ priority_scheduling_call
    \/ priority_scheduling_iter
    \/ priority_preemptive_scheduling_call
    \/ priority_preemptive_scheduling_iter
    \/ scheduling_return
    \/ run_simulation_return
    \/ except_handler

SpecAnyInput == InitAnyInput /\ [][NextAnyInput]_vars


\* ---------------------------------------------------------------- properties
Duration(g) == SegEnd(g) - SegStart(g)

\* CPU time that segments 1..i-1 of sched give to pid
ExecutedBefore(sched, i, pid) ==
    SeqSum([j \in 1..(i - 1) |-> IF SegPid(sched[j]) = pid THEN Duration(sched[j]) ELSE 0])

Executed(sched, pid) == ExecutedBefore(sched, Len(sched) + 1, pid)

Overlap(g, h) == SegStart(g) < SegEnd(h) /\ SegStart(h) < SegEnd(g)

Unsorted(procs) == \E i, j \in 1..Len(procs) : i < j /\ procs[i].arrival > procs[j].arrival

\* some process runs, is switched out, and runs again
Interleaved(sched) ==
    \E i, j, k \in 1..Len(sched) :
        i < j /\ j < k /\ SegPid(sched[i]) = SegPid(sched[k]) /\ SegPid(sched[i]) # SegPid(sched[j])

BurstSum(s) == SeqSum([i \in 1..Len(s) |-> s[i].burst])

RemainingSum(s) == SeqSum([i \in 1..Len(s) |-> s[i].remaining])

\* the burst still to be executed, as the running function's lists hold it
TotalRemaining ==
    CASE algo \in {"FCFS", "Priority"} -> BurstSum(processes)
      [] algo = "SJN" -> BurstSum(processes) + BurstSum(ready_queue)
      [] algo = "Round Robin" -> BurstSum(queue)
      [] OTHER -> RemainingSum(processes) + RemainingSum(ready_queue) + active_process.remaining

\* C1: when a scheduling function returns, every process of the list appears
\* in the timeline and the durations of its segments add up to its burst.
C1_Conservation ==
    pc = "returned" =>
        \A p \in Range(process_list) :
            /\ p.pid \in SchedPids(schedule)
            /\ Executed(schedule, p.pid) = p.burst

C1_Witness ==
    /\ pc = "returned"
    /\ algo = "SJN with Preemption"
    /\ Len(process_list) = 3
    /\ Unsorted(process_list)
    /\ Interleaved(schedule)

\* C2: in a returned timeline no two segments overlap and no segment starts
\* before the arrival of its process.
C2_NoOverlapAfterArrival ==
    pc = "returned" =>
        /\ \A i, j \in 1..Len(schedule) : i < j => ~Overlap(schedule[i], schedule[j])
        /\ \A i \in 1..Len(schedule) :
               SegStart(schedule[i]) >= ProcessDict(process_list)[SegPid(schedule[i])].arrival

C2_Witness ==
    /\ pc = "returned"
    /\ algo = "Round Robin"
    /\ Unsorted(process_list)
    /\ Interleaved(schedule)
    /\ \E i \in 1..Len(schedule) :
           SegStart(schedule[i]) > ProcessDict(process_list)[SegPid(schedule[i])].arrival

\* C3: every segment of a returned timeline has start < end, and a segment
\* of the two unit-stepping functions covers exactly one time unit.
C3_PositiveSegments ==
    pc = "returned" =>
        \A i \in 1..Len(schedule) :
            /\ SegStart(schedule[i]) < SegEnd(schedule[i])
            /\ algo \in {"SJN with Preemption", "Priority with Preemption"}
                   => Duration(schedule[i]) = 1

\* C4: in the timeline of sjn_preemptive_scheduling the process of every
\* segment has the least remaining time among the processes that have arrived
\* and are incomplete, no time unit is idle while an arrived process is
\* incomplete, and an unfinished process is followed by another one only if
\* that one has strictly less remaining time.
C4_ShortestRemainingFirst ==
    (pc = "returned" /\ algo = "SJN with Preemption") =>
        LET pd == ProcessDict(process_list)
            Rem(i, pid) == pd[pid].burst - ExecutedBefore(schedule, i, pid)
            n == Len(schedule)
            first == SetMin({p.arrival : p \in Range(process_list)})
            DoneBy(t, pid) ==
                SeqSum([j \in 1..n |->
                    IF SegPid(schedule[j]) = pid /\ SegEnd(schedule[j]) <= t
                    THEN Duration(schedule[j]) ELSE 0])
        IN /\ \A i \in 1..n : \A q \in DOMAIN pd :
                  (pd[q].arrival <= SegStart(schedule[i]) /\ Rem(i, q) > 0)
                      => Rem(i, SegPid(schedule[i])) <= Rem(i, q)
           /\ \A t \in first..(SegEnd(schedule[n]) - 1) :
                  (\A i \in 1..n : ~(SegStart(schedule[i]) <= t /\ t < SegEnd(schedule[i])))
                      => \A q \in DOMAIN pd : ~(pd[q].arrival <= t /\ DoneBy(t, q) < pd[q].burst)
           /\ \A i \in 1..(n - 1) :
                  (SegPid(schedule[i]) # SegPid(schedule[i + 1])
                       /\ Rem(i + 1, SegPid(schedule[i])) > 0)
                      => Rem(i + 1, SegPid(schedule[i + 1])) < Rem(i + 1, SegPid(schedule[i]))

\* C5: in the timeline of priority_preemptive_scheduling the process of every
\* segment that covers a time unit has the least priority value among the
\* processes that have arrived and are incomplete, and an unfinished process
\* is followed by another one only if that one has a strictly lower priority
\* value.
C5_HighestPriorityFirst ==
    (pc = "returned" /\ algo = "Priority with Preemption") =>
        LET pd == ProcessDict(process_list)
            Rem(i, pid) == pd[pid].burst - ExecutedBefore(schedule, i, pid)
            n == Len(schedule)
        IN /\ \A i \in 1..n : \A q \in DOMAIN pd :
                  (Duration(schedule[i]) > 0 /\ pd[q].arrival <= SegStart(schedule[i])
                       /\ Rem(i, q) > 0)
                      => pd[SegPid(schedule[i])].priority <= pd[q].priority
           /\ \A i \in 1..(n - 1) :
                  (SegPid(schedule[i]) # SegPid(schedule[i + 1])
                       /\ Rem(i + 1, SegPid(schedule[i])) > 0)
                      => pd[SegPid(schedule[i + 1])].priority < pd[SegPid(schedule[i])].priority

\* C6: in the timeline of sjn_scheduling every segment runs its process to
\* completion, that process has the smallest burst among the processes not
\* run before that have arrived by the segment's start, and the clock moves
\* past the previous end only when no process not run before had arrived.
C6_ShortestJobNext ==
    (pc = "returned" /\ algo = "SJN") =>
        LET pd == ProcessDict(process_list)
            n == Len(schedule)
            NotRun(i) == {q \in DOMAIN pd : \A j \in 1..(i - 1) : SegPid(schedule[j]) # q}
            PrevEnd(i) == IF i = 1 THEN 0 ELSE SegEnd(schedule[i - 1])
        IN \A i \in 1..n :
               /\ Duration(schedule[i]) = pd[SegPid(schedule[i])].burst
               /\ \A q \in NotRun(i) :
                      pd[q].arrival <= SegStart(schedule[i])
                          => pd[SegPid(schedule[i])].burst <= pd[q].burst
               /\ SegStart(schedule[i]) > PrevEnd(i)
                      => \A q \in NotRun(i) : pd[q].arrival >= SegStart(schedule[i])

\* C7 as stated: for a list of one process every function returns the one
\* segment (pid, arrival, arrival + burst).
C7_OneSegment ==
    (pc = "returned" /\ Len(process_list) = 1) =>
        LET p == process_list[1]
        IN schedule = <<Segment(p.pid, p.arrival, p.arrival + p.burst)>>

\* C7 as amended: for a list of one process the timeline runs without a gap
\* from arrival to arrival + burst in slices of width w, the last one cut at
\* arrival + burst: w = burst (one segment) for FCFS, SJN and Priority,
\* w = 1 (burst segments) for the two unit-stepping functions, and
\* w = quantum (ceil(burst / quantum) segments) for Round Robin.
C7_SingleProcess ==
    (pc = "returned" /\ Len(process_list) = 1) =>
        LET p == process_list[1]
            w == CASE algo \in {"FCFS", "SJN", "Priority"} -> p.burst
                   [] algo = "Round Robin" -> quantum
                   [] OTHER -> 1
            n == (p.burst + w - 1) \div w
        IN /\ Len(schedule) = n
           /\ \A k \in 1..n :
                  schedule[k] = Segment(p.pid, p.arrival + (k - 1) * w,
                                        Min2(p.arrival + k * w, p.arrival + p.burst))

C7_Witness ==
    /\ pc = "returned"
    /\ Len(process_list) = 1
    /\ algo = "SJN with Preemption"
    /\ process_list[1].arrival = 2
    /\ process_list[1].burst = 3
    /\ Len(schedule) = 3

\* C8: when a scheduling function returns, and when the next one is called,
\* the caller's list is the list as configured; a function run again on it
\* returns what it returned in the previous Compare All.
C8_CallerListKept ==
    /\ pc \in {"returned", "call"} => process_list = original
    /\ (pc = "returned" /\ algo \in DOMAIN previous)
           => RunResult(algo, schedule, process_list) = previous[algo]

C8_Witness ==
    /\ pc = "returned"
    /\ algo = "SJN"
    /\ "SJN" \in DOMAIN previous
    /\ "FCFS" \in DOMAIN results
    /\ Len(process_list) = 3
    /\ Unsorted(process_list)

\* C9: a function returns only with nothing pending, queued or active, every
\* loop pass that appends a segment lowers the total remaining burst, and so
\* a returned timeline has at most as many segments as the bursts add up to.
C9_DispatchBound ==
    /\ [](pc = "returned" =>
            /\ processes = <<>> /\ ready_queue = <<>> /\ queue = <<>>
            /\ active_process = None
            /\ Len(schedule) <= BurstSum(process_list))
    /\ [][(pc = "loop" /\ pc' = "loop" /\ Len(schedule') > Len(schedule))
              => TotalRemaining' < TotalRemaining]_vars

\* C10: in the timeline of round_robin_scheduling every segment lasts
\* min(quantum, burst the process had left at that dispatch), hence at most
\* quantum, and a segment shorter than quantum is the last of its process.
C10_RoundRobinSlices ==
    (pc = "returned" /\ algo = "Round Robin") =>
        LET pd == ProcessDict(process_list)
            n == Len(schedule)
        IN \A i \in 1..n :
            LET pid == SegPid(schedule[i])
                left == pd[pid].burst - ExecutedBefore(schedule, i, pid)
            IN /\ Duration(schedule[i]) = Min2(quantum, left)
               /\ Duration(schedule[i]) <= quantum
               /\ Duration(schedule[i]) < quantum
                      => \A j \in (i + 1)..n : SegPid(schedule[j]) # pid

C10_Witness ==
    /\ pc = "returned"
    /\ algo = "Round Robin"
    /\ quantum = 2
    /\ Len(process_list) = 3
    /\ \E i \in 1..Len(schedule) :
           /\ Duration(schedule[i]) = 1
           /\ \E j \in 1..(i - 1) :
                  SegPid(schedule[j]) = SegPid(schedule[i]) /\ Duration(schedule[j]) = 2

\* ---------------------------------------------------------------- C11
\* a report with no per-process entry, every average 0, utilisation 0 and
\* throughput 0
AllZeroReport(r) ==
    /\ DOMAIN r.wt = {} /\ DOMAIN r.tt = {} /\ DOMAIN r.rt = {}
    /\ r.awt.num = 0 /\ r.att.num = 0 /\ r.art.num = 0
    /\ r.cpu_util.num = 0 /\ r.throughput.num = 0

\* C11: on an empty process list no scheduling function, no calculator and
\* no step of run_simulation raises, and every report handed back is the
\* all-zero report.
C11_EmptyNeverRaises ==
    process_list = <<>> =>
        /\ pc # "raised"
        /\ \A a \in DOMAIN results : AllZeroReport(results[a])

\* ---------------------------------------------------------------- C12
\* what the specification calls a valid ProcessSet, and a valid quantum
ValidProcessSet(procs) ==
    /\ procs # <<>>
    /\ \A i, j \in 1..Len(procs) : procs[i].pid = procs[j].pid => i = j
    /\ \A i \in 1..Len(procs) :
           procs[i].burst > 0 /\ procs[i].arrival >= 0 /\ procs[i].priority > 0

ValidInput == ValidProcessSet(process_list) /\ (algo = "Round Robin" => quantum > 0)

\* C12: for an invalid process list, or a quantum <= 0 handed to Round
\* Robin, no scheduling function enters its loop and none returns a
\* timeline.
C12_InvalidRejected ==
    (pc \in {"call", "loop", "returned"} /\ ~ValidInput) => pc \notin {"loop", "returned"}

\* ---------------------------------------------------------------- C13
Preemptive == {"SJN with Preemption", "Round Robin", "Priority with Preemption"}

NonPreemptive == {"FCFS", "SJN", "Priority"}

\* the segments of pid, in timeline order
SegmentsOf(sched, pid) == SelectSeq(sched, LAMBDA g : SegPid(g) = pid)

\* the time between the consecutive segments of a run
Gaps(segs) == SeqSum([k \in 1..(Len(segs) - 1) |-> SegStart(segs[k + 1]) - SegEnd(segs[k])])

\* C13: on the timeline a preemptive policy returns,
\* calculate_preemptive_waiting_time gives every process waiting = (first
\* start - arrival) + the gaps between its consecutive segments, turnaround =
\* (end of its last segment) - arrival, response = (first start) - arrival.
C13_FragmentedMetrics ==
    (pc = "returned" /\ algo \in Preemptive) =>
        LET m == calculate_preemptive_waiting_time(schedule, process_list)
        IN /\ ~m.raised
           /\ \A i \in 1..Len(process_list) :
                  LET p == process_list[i]
                      segs == SegmentsOf(schedule, p.pid)
                  IN /\ segs # <<>>
                     /\ m.waiting_times[p.pid] =
                            (SegStart(segs[1]) - p.arrival) + Gaps(segs)
                     /\ m.turnaround_times[p.pid] = SegEnd(segs[Len(segs)]) - p.arrival
                     /\ m.response_times[p.pid] = SegStart(segs[1]) - p.arrival

\* a process that waited before its first dispatch and again between two of
\* its segments
C13_Witness ==
    /\ pc = "returned" /\ algo \in Preemptive
    /\ \E i \in 1..Len(process_list) :
           LET p == process_list[i]
               segs == SegmentsOf(schedule, p.pid)
               m == calculate_preemptive_waiting_time(schedule, process_list)
           IN /\ Len(segs) >= 2
              /\ SegStart(segs[1]) > p.arrival
              /\ Gaps(segs) > 0
              /\ m.waiting_times[p.pid] > m.response_times[p.pid]

\* ---------------------------------------------------------------- C14
\* C14: FCFS, SJN and Priority return exactly one segment per process, as
\* long as the process's burst.
C14_OneSegmentPerProcess ==
    (pc = "returned" /\ algo \in NonPreemptive) =>
        /\ Len(schedule) = Len(process_list)
        /\ \A i \in 1..Len(process_list) :
               LET segs == SegmentsOf(schedule, process_list[i].pid)
               IN Len(segs) = 1 /\ Duration(segs[1]) = process_list[i].burst

\* three processes with bursts over one unit, not served in input order
C14_Witness ==
    /\ pc = "returned" /\ algo \in NonPreemptive
    /\ Len(process_list) = MaxProcs
    /\ \A i \in 1..Len(process_list) : process_list[i].burst > 1
    /\ SegPid(schedule[1]) # process_list[1].pid
    /\ \A i \in 1..Len(process_list) :
           Len(SegmentsOf(schedule, process_list[i].pid)) = 1

\* ---------------------------------------------------------------- C15
\* C15: on the example P1(0, 24, 1), P2(1, 3, 1), P3(2, 3, 1) FCFS returns
\* P1[0,24), P2[24,27), P3[27,30) with waiting times 0, 23, 25 (sum 48,
\* average 16), and SJN returns the same timeline.
C15_ReferenceCase ==
    /\ process_list = LoadExample
    /\ "FCFS" \in DOMAIN results =>
           /\ results["FCFS"].schedule =
                  <<Segment(1, 0, 24), Segment(2, 24, 27), Segment(3, 27, 30)>>
           /\ results["FCFS"].wt = (1 :> 0) @@ (2 :> 23) @@ (3 :> 25)
           /\ results["FCFS"].awt = Quotient(48, 3)
           /\ results["FCFS"].awt.num = 16 * results["FCFS"].awt.den
    /\ "SJN" \in DOMAIN results => results["SJN"].schedule = results["FCFS"].schedule

\* both runs of the example have been reported
C15_Witness ==
    /\ process_list = LoadExample
    /\ pc = "main"
    /\ {"FCFS", "SJN"} \subseteq DOMAIN results
    /\ Len(results["SJN"].schedule) = Len(LoadExample)

\* ---------------------------------------------------------------- C16
\* time unit [t, t+1) lies in a segment
Covered(sched, t) == \E i \in 1..Len(sched) : SegStart(sched[i]) <= t /\ t < SegEnd(sched[i])

\* the units from the first arrival to the end of the timeline that no
\* segment covers
IdleUnits(sched, procs) ==
    {t \in SetMin({p.arrival : p \in Range(procs)})..(SegEnd(sched[Len(sched)]) - 1) :
        ~Covered(sched, t)}

\* a process that has arrived by t and whose segment ends after t
ArrivedUnfinished(sched, procs, t) ==
    \E i \in 1..Len(procs) :
        /\ procs[i].arrival <= t
        /\ \E k \in 1..Len(sched) :
               SegPid(sched[k]) = procs[i].pid /\ SegEnd(sched[k]) > t

\* every segment starts at max(current_time, arrival), current_time being 0
\* and then the end of the segment before
StartsAtMax(sched, procs) ==
    \A k \in 1..Len(sched) :
        SegStart(sched[k]) =
            Max2(IF k = 1 THEN 0 ELSE SegEnd(sched[k - 1]),
                 ProcessDict(procs)[SegPid(sched[k])].arrival)

\* C16 as stated: under FCFS and Priority every process starts at
\* max(currentTime, arrival), and a time unit after the first arrival is idle
\* only if no process that has arrived is still unfinished.
C16_IdleOnlyWhenStarved ==
    (pc = "returned" /\ algo \in {"FCFS", "Priority"}) =>
        /\ StartsAtMax(schedule, process_list)
        /\ \A t \in IdleUnits(schedule, process_list) :
               ~ArrivedUnfinished(schedule, process_list, t)

\* C16 amended: the start rule holds for both; the CPU idles only when
\* starved under FCFS, and under Priority only while the next process in
\* (priority, arrival) order has not arrived.
C16_IdleGapRule ==
    (pc = "returned" /\ algo \in {"FCFS", "Priority"}) =>
        /\ StartsAtMax(schedule, process_list)
        /\ algo = "FCFS" =>
               \A t \in IdleUnits(schedule, process_list) :
                   ~ArrivedUnfinished(schedule, process_list, t)
        /\ algo = "Priority" =>
               /\ \A k \in 1..Len(schedule) :
                      SegPid(schedule[k]) =
                          StableSort(process_list, "priority_arrival")[k].pid
               /\ \A t \in IdleUnits(schedule, process_list) :
                      \E k \in 1..Len(schedule) :
                          /\ SegStart(schedule[k]) > t
                          /\ k > 1 => SegEnd(schedule[k - 1]) <= t
                          /\ ProcessDict(process_list)[SegPid(schedule[k])].arrival > t

\* FCFS with an idle gap between two processes, and Priority idling while a
\* process of lower priority waits
C16_Witness ==
    /\ pc = "returned"
    /\ \/ /\ algo = "FCFS"
          /\ Len(schedule) >= 2
          /\ IdleUnits(schedule, process_list) # {}
       \/ /\ algo = "Priority"
          /\ \E t \in IdleUnits(schedule, process_list) :
                 ArrivedUnfinished(schedule, process_list, t)

\* ---------------------------------------------------------------- C17
\* ceil(b / q) for q > 0
CeilDiv(b, q) == (b + q - 1) \div q

\* how many of the segments k+1 .. l-1 belong to pid
SegmentsBetween(sched, k, l, pid) ==
    Cardinality({j \in (k + 1)..(l - 1) : SegPid(sched[j]) = pid})

\* C17: Round Robin serves the processes in input order, gives a process of
\* burst b exactly ceil(b / quantum) segments, and between two consecutive
\* segments of a process gives every other process exactly one segment if it
\* still has burst left, and none if it has finished.
C17_RoundRobinRotation ==
    (pc = "returned" /\ algo = "Round Robin") =>
        /\ \A i \in 1..Len(process_list) :
               /\ SegPid(schedule[i]) = process_list[i].pid
               /\ Len(SegmentsOf(schedule, process_list[i].pid)) =
                      CeilDiv(process_list[i].burst, quantum)
        /\ \A k, l \in 1..Len(schedule) :
               (/\ k < l
                /\ SegPid(schedule[k]) = SegPid(schedule[l])
                /\ SegmentsBetween(schedule, k, l, SegPid(schedule[k])) = 0) =>
                   \A i \in 1..Len(process_list) :
                       LET r == process_list[i]
                       IN r.pid # SegPid(schedule[k]) =>
                              SegmentsBetween(schedule, k, l, r.pid) =
                                  IF ExecutedBefore(schedule, k, r.pid) < r.burst
                                  THEN 1 ELSE 0

\* a process comes round again after one process that still had burst left
\* took its turn and another that had finished did not
C17_Witness ==
    /\ pc = "returned" /\ algo = "Round Robin"
    /\ Len(process_list) = MaxProcs
    /\ \E k, l \in 1..Len(schedule) :
           /\ k < l
           /\ SegPid(schedule[k]) = SegPid(schedule[l])
           /\ SegmentsBetween(schedule, k, l, SegPid(schedule[k])) = 0
           /\ \E i, j \in 1..Len(process_list) :
                  /\ SegmentsBetween(schedule, k, l, process_list[i].pid) = 1
                  /\ process_list[j].pid # SegPid(schedule[k])
                  /\ SegmentsBetween(schedule, k, l, process_list[j].pid) = 0

\* ---------------------------------------------------------------- C18
UnitStepping == {"SJN with Preemption", "Priority with Preemption"}

\* the end of the segment with which pid has received its whole burst
FinishedAt(sched, pid, burst) ==
    SegEnd(sched[CHOOSE k \in 1..Len(sched) :
                    /\ SegPid(sched[k]) = pid
                    /\ ExecutedBefore(sched, k + 1, pid) = burst
                    /\ ExecutedBefore(sched, k, pid) < burst])

\* C18: in SJN with Preemption and Priority with Preemption a process whose
\* remaining time is 0 is never in the ready queue and never dispatched
\* again, and the completion time its turnaround is computed from is the
\* instant its remaining time became 0.
C18_FinishedStaysFinished ==
    (pc \in {"loop", "returned"} /\ algo \in UnitStepping) =>
        /\ \A i \in 1..Len(ready_queue) : ready_queue[i].remaining > 0
        /\ active_process # None => active_process.remaining > 0
        /\ \A k \in 1..Len(schedule) :
               ExecutedBefore(schedule, k, SegPid(schedule[k])) <
                   ProcessDict(process_list)[SegPid(schedule[k])].burst
        /\ pc = "returned" =>
               \A i \in 1..Len(process_list) :
                   CompletionTimes(schedule)[process_list[i].pid] =
                       FinishedAt(schedule, process_list[i].pid, process_list[i].burst)

\* ---------------------------------------------------------------- C19
\* C19: in every report of run_simulation, for every process, turnaround =
\* waiting + burst and 0 <= response <= waiting, with response = waiting
\* under FCFS, SJN and Priority.
C19_MetricIdentities ==
    \A a \in DOMAIN results :
        \A i \in 1..Len(process_list) :
            LET p == process_list[i]
                r == results[a]
            IN /\ r.tt[p.pid] = r.wt[p.pid] + p.burst
               /\ 0 <= r.rt[p.pid]
               /\ r.rt[p.pid] <= r.wt[p.pid]
               /\ a \in NonPreemptive => r.rt[p.pid] = r.wt[p.pid]

\* all six reports are in, one process waited under FCFS and one waited
\* longer than its response time under Round Robin
C19_Witness ==
    /\ pc = "main"
    /\ DOMAIN results = Range(algorithm_options)
    /\ \E i \in 1..Len(process_list) : results["FCFS"].wt[process_list[i].pid] > 0
    /\ \E i \in 1..Len(process_list) :
           LET r == results["Round Robin"]
           IN 0 < r.rt[process_list[i].pid] /\ r.rt[process_list[i].pid] < r.wt[process_list[i].pid]

\* ---------------------------------------------------------------- C20
\* C20: in every report the last segment ends latest, the bursts sum to at
\* most (that end - earliest arrival), so the span is positive and the CPU
\* utilisation at most 100%; for one process the span is its burst, the
\* utilisation exactly 100% and the throughput 1 / burst.
C20_SpanBoundsBusyTime ==
    \A a \in DOMAIN results :
        LET r == results[a]
            last == SegEnd(r.schedule[Len(r.schedule)])
        IN /\ \A k \in 1..Len(r.schedule) : SegEnd(r.schedule[k]) <= last
           /\ r.total_time = last - SetMin({p.arrival : p \in Range(process_list)})
           /\ r.busy_time = BurstSum(process_list)
           /\ r.busy_time <= r.total_time
           /\ r.total_time > 0
           /\ r.cpu_util = Quotient(r.busy_time * 100, r.total_time)
           /\ r.cpu_util.num <= 100 * r.cpu_util.den
           /\ Len(process_list) = 1 =>
                  /\ r.total_time = process_list[1].burst
                  /\ r.cpu_util.num = 100 * r.cpu_util.den
                  /\ r.throughput = Quotient(1, process_list[1].burst)

\* all six reports are in for three processes, one of them with an idle CPU
\* inside its span
C20_Witness ==
    /\ pc = "main"
    /\ DOMAIN results = Range(algorithm_options)
    /\ Len(process_list) = MaxProcs
    /\ \E a \in DOMAIN results : results[a].busy_time < results[a].total_time
    /\ \E a \in DOMAIN results : results[a].busy_time = results[a].total_time

====
